---------------------------- MODULE Spec2Model ----------------------------
(***************************************************************************)
(* jsonwatch: the polling loop `watch` of src/src/main.rs, the terminal    *)
(* escaping `escape_for_terminal`, and the structural diff engine          *)
(* (jsonwatch::diff, used by watch) that the polling loop calls.           *)
(*                                                                         *)
(* Text is a sequence of Unicode code points (naturals).  A JSON value is  *)
(* a record of one fixed shape, so that any two values can be compared:    *)
(*   t    : "null" | "bool" | "num" | "str" | "arr" | "obj"                *)
(*   f    : a number held as f64 (TRUE) or as u64 (FALSE); else FALSE      *)
(*   n    : the number's value in binary, lowest bit first, no leading     *)
(*          zero bit (t = "num"); <<1>> / <<>> for true / false; else <<>> *)
(*   s    : the text of a string (t = "str"), else <<>>                    *)
(*   keys : the keys of an object in map order (t = "obj"), else <<>>      *)
(*   kids : the elements of an array or the member values of an object,   *)
(*          kids[i] belonging to keys[i]; else <<>>                        *)
(***************************************************************************)
EXTENDS Integers, Sequences, FiniteSets

\* ------------------------------------------------------------------ bounds

\* Polling samples taken in one run of watch.
MaxTicks == 3
\* Largest change limit (--changes) tried.
MaxChanges == 2
\* Longest input of escape_for_terminal tried.
MaxEscLen == 3
\* Longest array / largest object built for the diff engine's inputs.
MaxWidth == 2

\* ------------------------------------------------------------- characters

Ws == {32, 10, 9, 13}
Digits == 48 .. 57

\* A test that knows only the C0 controls.
is_control_c0(ch) == ch \in 0 .. 31

\* char::is_control: the Unicode category Cc, U+0000..U+001F and U+007F..U+009F.
is_control(ch) == ch \in 0 .. 31 \/ ch \in 127 .. 159

\* char::is_whitespace as used by str::trim, on the code points below U+00A0.
is_whitespace(ch) == ch \in {9, 10, 11, 12, 13, 32, 133}

\* input_data.trim().is_empty()
trim_is_empty(text) == \A i \in 1 .. Len(text) : is_whitespace(text[i])

\* ----------------------------------------------------------------- values

\* The binary digits of k, lowest first.
RECURSIVE Bits(_)
Bits(k) == IF k = 0 THEN <<>> ELSE <<k % 2>> \o Bits(k \div 2)

Null == [t |-> "null", f |-> FALSE, n |-> <<>>, s |-> <<>>, keys |-> <<>>, kids |-> <<>>]
Bool(b) == [t |-> "bool", f |-> FALSE, n |-> IF b THEN <<1>> ELSE <<>>, s |-> <<>>, keys |-> <<>>, kids |-> <<>>]
\* Number: N::PosInt(u64) and N::Float(f64), the value given by its bits.
NumU64(bits) == [t |-> "num", f |-> FALSE, n |-> bits, s |-> <<>>, keys |-> <<>>, kids |-> <<>>]
NumF64(bits) == [t |-> "num", f |-> TRUE, n |-> bits, s |-> <<>>, keys |-> <<>>, kids |-> <<>>]
\* The number k, as from_str gives it for the digits of k.
Num(k) == NumU64(Bits(k))
Str(x) == [t |-> "str", f |-> FALSE, n |-> <<>>, s |-> x, keys |-> <<>>, kids |-> <<>>]
Arr(xs) == [t |-> "arr", f |-> FALSE, n |-> <<>>, s |-> <<>>, keys |-> <<>>, kids |-> xs]
Obj(ks, xs) == [t |-> "obj", f |-> FALSE, n |-> <<>>, s |-> <<>>, keys |-> ks, kids |-> xs]

\* Option<Value>
None == [some |-> FALSE, v |-> Null]
Some(x) == [some |-> TRUE, v |-> x]

\* Position of key k in ks, 0 when absent.
KeyIndex(ks, k) ==
    IF \E i \in 1 .. Len(ks) : ks[i] = k
    THEN CHOOSE i \in 1 .. Len(ks) : ks[i] = k
    ELSE 0

\* String's Ord: a before b, character by character, a proper prefix first.
KeyLess(a, b) ==
    \E i \in 1 .. Len(b) :
        /\ \A j \in 1 .. i - 1 : j <= Len(a) /\ a[j] = b[j]
        /\ (i > Len(a) \/ a[i] < b[i])

\* Map::insert: a key already present keeps its place and takes the new
\* value.  A new key goes to the end when serde_json is built with the
\* feature preserve_order (the Map is an IndexMap), and to its place in the
\* order of the keys when it is not (the Map is a BTreeMap).
MapInsert(o, k, x, preserve) ==
    LET i == KeyIndex(o.keys, k)
        p == Cardinality({j \in 1 .. Len(o.keys) : KeyLess(o.keys[j], k)}) IN
    IF i # 0 THEN Obj(o.keys, [o.kids EXCEPT ![i] = x])
    ELSE IF preserve THEN Obj(Append(o.keys, k), Append(o.kids, x))
    ELSE Obj(SubSeq(o.keys, 1, p) \o <<k>> \o SubSeq(o.keys, p + 1, Len(o.keys)),
             SubSeq(o.kids, 1, p) \o <<x>> \o SubSeq(o.kids, p + 1, Len(o.kids)))

\* Whether the Map of the build can hold x: any order of the keys with
\* preserve_order, the keys ascending without it.
RECURSIVE MapHolds(_, _)
MapHolds(x, preserve) ==
    /\ (x.t = "obj" /\ ~preserve) =>
           \A i \in 1 .. Len(x.keys) - 1 : KeyLess(x.keys[i], x.keys[i + 1])
    /\ \A i \in 1 .. Len(x.kids) : MapHolds(x.kids[i], preserve)


\* ---------------------------------------------------------------- parsing
\* serde_json::from_str on texts over the alphabet
\*   space \n \t \r " , : [ ] { } 0-9 a b l n u
\* whose JSON values are null, non-negative integers, strings without
\* escapes, arrays and objects (no sign, fraction, exponent, true or false
\* can be written in it).  A parse step yields [ok, v, i]: whether it
\* succeeded, the value, and the position after it.

Fail == [ok |-> FALSE, v |-> Null, i |-> 0]
Done(x, j) == [ok |-> TRUE, v |-> x, i |-> j]

At(text, i) == IF i \in 1 .. Len(text) THEN text[i] ELSE -1

RECURSIVE SkipWs(_, _)
SkipWs(text, i) ==
    IF At(text, i) \in Ws THEN SkipWs(text, i + 1) ELSE i

\* Natural numbers of any size, as their bits, lowest first.
RECURSIVE BAdd(_, _, _)
BAdd(a, b, carry) ==
    IF carry = 0 /\ a = <<>> THEN b
    ELSE IF carry = 0 /\ b = <<>> THEN a
    ELSE IF a = <<>> /\ b = <<>> THEN <<1>>
    ELSE LET x == IF a = <<>> THEN 0 ELSE Head(a)
             y == IF b = <<>> THEN 0 ELSE Head(b)
             sum == x + y + carry IN
         <<sum % 2>> \o BAdd(IF a = <<>> THEN <<>> ELSE Tail(a),
                             IF b = <<>> THEN <<>> ELSE Tail(b), sum \div 2)

BShift(a) == IF a = <<>> THEN <<>> ELSE <<0>> \o a

RECURSIVE BMul(_, _)
BMul(a, b) ==
    IF b = <<>> THEN <<>>
    ELSE BAdd(IF Head(b) = 1 THEN a ELSE <<>>, BShift(BMul(a, Tail(b))), 0)

BMul10(a) == BAdd(BShift(a), BShift(BShift(BShift(a))), 0)

RECURSIVE BPow10(_)
BPow10(k) == IF k = 0 THEN <<1>> ELSE BMul10(BPow10(k - 1))

\* u64::BITS, f64::MANTISSA_DIGITS, f64::MAX_EXP, and the last index of
\* serde_json's table POW10 (1e0 .. 1e308).
U64Bits == 64
MantissaDigits == 53
MaxExp == 1024
Pow10Last == 308
\* serde_json's Deserializer::remaining_depth at the start of a parse.
RecursionLimit == 128

\* The f64 nearest to the natural number a, ties to the even mantissa: the
\* top MantissaDigits bits are kept, rounded by the bits below them.
RoundF64(a) ==
    LET drop == Len(a) - MantissaDigits IN
    IF drop <= 0 THEN a
    ELSE LET high == SubSeq(a, drop + 1, Len(a))
             up == /\ a[drop] = 1
                   /\ (high[1] = 1 \/ \E i \in 1 .. drop - 1 : a[i] = 1) IN
         [i \in 1 .. drop |-> 0] \o (IF up THEN BAdd(high, <<1>>, 0) ELSE high)

\* POW10[k], the f64 written 1e<k>.
POW10(k) == RoundF64(BPow10(k))

\* Deserializer::f64_from_parts for a positive number: `significand as f64`
\* times POW10[exponent]; an exponent beyond the table and an infinite
\* product are the error NumberOutOfRange.
f64_from_parts(significand, exponent) ==
    IF exponent > Pow10Last THEN [ok |-> FALSE, n |-> <<>>]
    ELSE LET prod == RoundF64(BMul(RoundF64(significand), POW10(exponent))) IN
         IF Len(prod) > MaxExp THEN [ok |-> FALSE, n |-> <<>>]
         ELSE [ok |-> TRUE, n |-> prod]

\* Deserializer::parse_long_integer (without feature float_roundtrip): the
\* digits from i on are only counted.
RECURSIVE parse_long_integer(_, _, _, _)
parse_long_integer(text, i, significand, exponent) ==
    IF At(text, i) \in Digits
    THEN parse_long_integer(text, i + 1, significand, exponent + 1)
    ELSE LET r == f64_from_parts(significand, exponent) IN
         IF r.ok THEN Done(NumF64(r.n), i) ELSE Fail

\* The digits from position i on, acc being the value of those before: the
\* number stays a u64 while it fits; at the digit that overflows it, it is
\* read on as an f64.
RECURSIVE ParseDigits(_, _, _)
ParseDigits(text, i, acc) ==
    IF At(text, i) \in Digits
    THEN LET next == BAdd(BMul10(acc), Bits(At(text, i) - 48), 0) IN
         IF Len(next) > U64Bits
         THEN parse_long_integer(text, i, acc, 0)
         ELSE ParseDigits(text, i + 1, next)
    ELSE Done(NumU64(acc), i)

\* A number starting at i (a digit): a leading 0 may not be followed by a digit.
ParseNumber(text, i) ==
    IF At(text, i) = 48
    THEN IF At(text, i + 1) \in Digits THEN Fail ELSE Done(Num(0), i + 1)
    ELSE ParseDigits(text, i, <<>>)

\* The characters of a string whose opening quote is before i, up to the
\* closing quote: [ok, s, i].  A control character below U+0020 is an error.
RECURSIVE ParseChars(_, _, _)
ParseChars(text, i, acc) ==
    LET ch == At(text, i) IN
    IF ch = 34 THEN [ok |-> TRUE, s |-> acc, i |-> i + 1]
    ELSE IF ch < 32 THEN [ok |-> FALSE, s |-> <<>>, i |-> 0]
    ELSE ParseChars(text, i + 1, Append(acc, ch))

\* The literal `null` at i.
ParseNull(text, i) ==
    IF i + 3 <= Len(text) /\ SubSeq(text, i, i + 3) = <<110, 117, 108, 108>>
    THEN Done(Null, i + 4)
    ELSE Fail

\* depth is remaining_depth: entering an array or an object takes one, and
\* none may be entered when that leaves zero.  preserve is the build's
\* choice of Map.
RECURSIVE ParseValue(_, _, _, _)
RECURSIVE ParseElems(_, _, _, _, _)
RECURSIVE ParseMembers(_, _, _, _, _)

\* The elements of an array from i on (the first element starts at i), acc
\* holding those before: after an element comes `,` and another element, or `]`.
ParseElems(text, i, acc, depth, preserve) ==
    LET r == ParseValue(text, i, depth, preserve) IN
    IF ~r.ok THEN Fail
    ELSE LET j == SkipWs(text, r.i)
             xs == Append(acc, r.v) IN
         IF At(text, j) = 93 THEN Done(Arr(xs), j + 1)
         ELSE IF At(text, j) = 44 THEN ParseElems(text, j + 1, xs, depth, preserve)
         ELSE Fail

\* The members of an object from i on (a key's opening quote is expected at
\* i, after white space), o holding those before.
ParseMembers(text, i, o, depth, preserve) ==
    LET j == SkipWs(text, i) IN
    IF At(text, j) # 34 THEN Fail
    ELSE LET k == ParseChars(text, j + 1, <<>>) IN
         IF ~k.ok THEN Fail
         ELSE LET c == SkipWs(text, k.i) IN
              IF At(text, c) # 58 THEN Fail
              ELSE LET r == ParseValue(text, c + 1, depth, preserve) IN
                   IF ~r.ok THEN Fail
                   ELSE LET e == SkipWs(text, r.i)
                            o2 == MapInsert(o, k.s, r.v, preserve) IN
                        IF At(text, e) = 125 THEN Done(o2, e + 1)
                        ELSE IF At(text, e) = 44 THEN ParseMembers(text, e + 1, o2, depth, preserve)
                        ELSE Fail

\* One JSON value from i on, after white space.
ParseValue(text, i, depth, preserve) ==
    LET j == SkipWs(text, i)
        ch == At(text, j) IN
    IF ch = 110 THEN ParseNull(text, j)
    ELSE IF ch \in Digits THEN ParseNumber(text, j)
    ELSE IF ch = 34
         THEN LET k == ParseChars(text, j + 1, <<>>) IN
              IF k.ok THEN Done(Str(k.s), k.i) ELSE Fail
    ELSE IF ch \in {91, 123} /\ depth - 1 = 0 THEN Fail
    ELSE IF ch = 91
         THEN LET e == SkipWs(text, j + 1) IN
              IF At(text, e) = 93 THEN Done(Arr(<<>>), e + 1)
              ELSE ParseElems(text, j + 1, <<>>, depth - 1, preserve)
    ELSE IF ch = 123
         THEN LET e == SkipWs(text, j + 1) IN
              IF At(text, e) = 125 THEN Done(Obj(<<>>, <<>>), e + 1)
              ELSE ParseMembers(text, j + 1, Obj(<<>>, <<>>), depth - 1, preserve)
    ELSE Fail

\* serde_json::from_str(&input_data): one value, then only white space up to
\* the end of the text.  Ok(json) is Some(json); Err(e) is None.
from_str(text, preserve) ==
    LET r == ParseValue(text, 1, RecursionLimit, preserve) IN
    IF r.ok /\ SkipWs(text, r.i) = Len(text) + 1 THEN Some(r.v) ELSE None


\* ------------------------------------------------------------ diff engine
\* jsonwatch::diff, the library crate that watch calls.

\* Structural equality of two values: the same variant and equal contents;
\* two objects are equal when they have the same keys with equal values, in
\* whatever order.
RECURSIVE ValueEq(_, _)
ValueEq(a, b) ==
    IF a.t # b.t THEN FALSE
    ELSE IF a.t = "arr"
         THEN /\ Len(a.kids) = Len(b.kids)
              /\ \A i \in 1 .. Len(a.kids) : ValueEq(a.kids[i], b.kids[i])
    ELSE IF a.t = "obj"
         THEN /\ Len(a.keys) = Len(b.keys)
              /\ \A i \in 1 .. Len(a.keys) :
                    LET j == KeyIndex(b.keys, a.keys[i]) IN
                    j # 0 /\ ValueEq(a.kids[i], b.kids[j])
    ELSE a.f = b.f /\ a.n = b.n /\ a.s = b.s

\* Path segments: a field name or an array index (from 0).
Key(k) == [isidx |-> FALSE, key |-> k, idx |-> 0]
Idx(i) == [isidx |-> TRUE, key |-> <<>>, idx |-> i]
Root == <<>>

\* Diff entries: a path and one kind, with the values the kind carries.
Added(path, x) == [kind |-> "Added", path |-> path, old |-> None, new |-> Some(x)]
Removed(path, x) == [kind |-> "Removed", path |-> path, old |-> Some(x), new |-> None]
Changed(path, x, y) == [kind |-> "Changed", path |-> path, old |-> Some(x), new |-> Some(y)]

\* A walk that forgets the keys only new has.
KeysNotIn_none(ks, other) == <<>>

\* The keys of ks that are not among those of other, in the order of ks.
RECURSIVE KeysNotIn(_, _)
KeysNotIn(ks, other) ==
    IF ks = <<>> THEN <<>>
    ELSE (IF KeyIndex(other, Head(ks)) = 0 THEN <<Head(ks)>> ELSE <<>>)
         \o KeysNotIn(Tail(ks), other)

RECURSIVE compare(_, _, _)
RECURSIVE CompareKeys(_, _, _, _)
RECURSIVE CompareItems(_, _, _, _)

\* The object rule, over the keys ks still to visit.
CompareKeys(path, old, new, ks) ==
    IF ks = <<>> THEN <<>>
    ELSE LET k == Head(ks)
             i == KeyIndex(old.keys, k)
             j == KeyIndex(new.keys, k)
             here == IF j = 0 THEN <<Removed(Append(path, Key(k)), old.kids[i])>>
                     ELSE IF i = 0 THEN <<Added(Append(path, Key(k)), new.kids[j])>>
                     ELSE compare(Append(path, Key(k)), old.kids[i], new.kids[j]) IN
         here \o CompareKeys(path, old, new, Tail(ks))

\* An array rule that numbers the elements from 1.
CompareItems_from1(path, old, new, i) ==
    IF i >= Len(old.kids) /\ i >= Len(new.kids) THEN <<>>
    ELSE LET here == IF i >= Len(new.kids) THEN <<Removed(Append(path, Idx(i + 1)), old.kids[i + 1])>>
                     ELSE IF i >= Len(old.kids) THEN <<Added(Append(path, Idx(i + 1)), new.kids[i + 1])>>
                     ELSE compare(Append(path, Idx(i + 1)), old.kids[i + 1], new.kids[i + 1]) IN
         here \o CompareItems(path, old, new, i + 1)

\* The array rule, from index i (from 0) on.
CompareItems(path, old, new, i) ==
    IF i >= Len(old.kids) /\ i >= Len(new.kids) THEN <<>>
    ELSE LET here == IF i >= Len(new.kids) THEN <<Removed(Append(path, Idx(i)), old.kids[i + 1])>>
                     ELSE IF i >= Len(old.kids) THEN <<Added(Append(path, Idx(i)), new.kids[i + 1])>>
                     ELSE compare(Append(path, Idx(i)), old.kids[i + 1], new.kids[i + 1]) IN
         here \o CompareItems(path, old, new, i + 1)

\* A comparison that walks new's keys before old's.
compare_newfirst(path, old, new) ==
    IF ValueEq(old, new) THEN <<>>
    ELSE IF old.t # new.t THEN <<Changed(path, old, new)>>
    ELSE IF old.t = "obj"
         THEN CompareKeys(path, old, new, new.keys \o KeysNotIn(old.keys, new.keys))
    ELSE IF old.t = "arr" THEN CompareItems(path, old, new, 0)
    ELSE <<Changed(path, old, new)>>

\* A comparison that does not stop at a change of variant.
compare_novariant(path, old, new) ==
    IF ValueEq(old, new) THEN <<>>
    ELSE IF old.t = "obj"
         THEN CompareKeys(path, old, new, old.keys \o KeysNotIn(new.keys, old.keys))
    ELSE IF old.t = "arr" THEN CompareItems(path, old, new, 0)
    ELSE <<Changed(path, old, new)>>

\* compare(path, old, new, out): the entries it appends to out.
compare(path, old, new) ==
    IF ValueEq(old, new) THEN <<>>
    ELSE IF old.t # new.t THEN <<Changed(path, old, new)>>
    ELSE IF old.t = "obj"
         THEN CompareKeys(path, old, new, old.keys \o KeysNotIn(new.keys, old.keys))
    ELSE IF old.t = "arr" THEN CompareItems(path, old, new, 0)
    ELSE <<Changed(path, old, new)>>

\* diff(prev, curr): the four cases at the root.
diff(p, c) ==
    IF ~p.some /\ ~c.some THEN <<>>
    ELSE IF ~p.some THEN <<Added(Root, c.v)>>
    ELSE IF ~c.some THEN <<Removed(Root, p.v)>>
    ELSE compare(Root, p.v, c.v)

\* ----------------------------------------------------------------- output
\* What is written to stdout, as a sequence of tokens: a timestamp, a space,
\* a line break, the single-line rendering of one diff entry, the pretty
\* printed initial value.

NoEntry == [kind |-> "", path |-> <<>>, old |-> None, new |-> None]
TsTok == [tok |-> "timestamp", e |-> NoEntry, v |-> None]
SpTok == [tok |-> "space", e |-> NoEntry, v |-> None]
NlTok == [tok |-> "newline", e |-> NoEntry, v |-> None]
EntryTok(e) == [tok |-> "entry", e |-> e, v |-> None]
PrettyTok(x) == [tok |-> "pretty", e |-> NoEntry, v |-> Some(x)]

\* Display for the diff result: one line per entry, each ended by a line
\* break, none before the first.
RECURSIVE Display(_)
Display(d) ==
    IF d = <<>> THEN <<>>
    ELSE <<EntryTok(Head(d)), NlTok>> \o Display(Tail(d))

\* str::lines: the text cut at its line breaks, a last line break ending the
\* last line rather than opening an empty one.
RECURSIVE lines(_, _)
lines(toks, cur) ==
    IF toks = <<>> THEN (IF cur = <<>> THEN <<>> ELSE <<cur>>)
    ELSE IF Head(toks) = NlTok THEN <<cur>> \o lines(Tail(toks), <<>>)
    ELSE lines(Tail(toks), Append(cur, Head(toks)))

\* [&str]::join(sep)
RECURSIVE join(_, _)
join(ls, sep) ==
    IF ls = <<>> THEN <<>>
    ELSE IF Len(ls) = 1 THEN ls[1]
    ELSE ls[1] \o sep \o join(Tail(ls), sep)

Indent == <<SpTok, SpTok, SpTok, SpTok>>


\* ---------------------------------------------------- escape_for_terminal

HexDigit(d) == IF d < 10 THEN 48 + d ELSE 87 + d

\* {:x}: the lower-case hexadecimal digits of n, no leading zeros.
RECURSIVE LowerHex(_)
LowerHex(n) ==
    IF n < 16 THEN <<HexDigit(n)>>
    ELSE Append(LowerHex(n \div 16), HexDigit(n % 16))

\* What one character of the input adds to the result.
EscapeChar(ch) ==
    IF ch = 10 \/ ch = 9 THEN <<ch>>
    ELSE IF is_control(ch) THEN <<92, 117, 123>> \o LowerHex(ch) \o <<125>>
    ELSE <<ch>>

RECURSIVE escape_for_terminal(_)
escape_for_terminal(input) ==
    IF input = <<>> THEN <<>>
    ELSE EscapeChar(Head(input)) \o escape_for_terminal(Tail(input))

\* ----------------------------------------------------------------- stderr
\* What is written to stderr, as a sequence of messages [kind, text].

Msg(kind, text) == [kind |-> kind, text |-> text]
SampleErrorMsg == Msg("error", <<>>)
ParseErrorMsg == Msg("json_parsing_error", <<>>)

\* input_data.trim_end().contains('\n') || input_data.ends_with("\n\n")
Multiline(text) ==
    \/ \E i \in 1 .. Len(text) :
          text[i] = 10 /\ \E j \in i + 1 .. Len(text) : ~is_whitespace(text[j])
    \/ Len(text) >= 2 /\ text[Len(text)] = 10 /\ text[Len(text) - 1] = 10

print_debug(text) ==
    <<Msg(IF Multiline(text) THEN "debug_multiline" ELSE "debug", escape_for_terminal(text))>>
    \o (IF text # <<>> /\ text[Len(text)] # 10 THEN <<Msg("newline", <<>>)>> ELSE <<>>)
    \o (IF Multiline(text) THEN <<Msg("debug_end", <<>>)>> ELSE <<>>)


\* ------------------------------------------------------------------ state

VARIABLES
    preserve_order, \* whether serde_json is built with its feature preserve_order
    pc,             \* where watch stands: "init", "check", "sleep", "sample", "done";
                    \* "diff"/"diffed", "escape"/"escaped" while a pure function is exercised
    changes,        \* Cli::changes, Option<u32> as [some, n]
    print_date,     \* !cli.no_date
    print_initial,  \* !cli.no_initial_values
    verbose,        \* Cli::verbose
    change_count,   \* watch's change_count
    data,           \* watch's slot `data`, Option<Value>
    prev,           \* the `prev` of the last iteration that reached line 236
    input,          \* what lambda() returned last: [ok, text]
    step,           \* how the last step of watch ended
    dres,           \* the result of the last diff call
    out,            \* what the last step wrote to stdout
    err,            \* what the last step wrote to stderr
    ticks,          \* polling samples taken
    reports,        \* change reports printed
    sleeps,         \* calls of thread::sleep that have returned
    d_prev, d_curr, d_out,   \* diff exercised alone: its arguments and result
    esc_in, esc_out          \* escape_for_terminal exercised alone

build == <<preserve_order>>
cli == <<changes, print_date, print_initial, verbose>>
loop == <<change_count, data, prev, input, step, dres, out, err, ticks, reports, sleeps>>
pure == <<d_prev, d_curr, d_out, esc_in, esc_out>>
vars == <<pc, build, cli, loop, pure>>

NoLimit == [some |-> FALSE, n |-> 0]
Limit(k) == [some |-> TRUE, n |-> k]

\* ---------------------------------------------------------------- sampler
\* The texts the data source returns in this model.

Texts ==
    { <<>>,                                                  \* (empty)
      <<32, 10>>,                                            \* " \n"
      <<123>>,                                               \* {
      <<49, 32, 49>>,                                        \* 1 1
      <<49>>,                                                \* 1
      <<123, 34, 97, 34, 58, 49, 44, 34, 98, 34, 58, 50, 125>>,   \* {"a":1,"b":2}
      <<123, 34, 98, 34, 58, 50, 44, 34, 97, 34, 58, 49, 125>>,   \* {"b":2,"a":1}
      <<123, 34, 97, 34, 58, 49, 125, 10>>,                  \* {"a":1}\n
      <<91, 49, 44, 50, 93>>,                                \* [1,2]
      <<91, 50, 44, 91, 49, 93, 93>> }                       \* [2,[1]]

\* lambda(): Err(e), or Ok(text).
SampleErr == [ok |-> FALSE, text |-> <<>>]
SampleOk(text) == [ok |-> TRUE, text |-> text]
Samples == {SampleErr} \cup {SampleOk(t) : t \in Texts}

\* ------------------------------------------------------------------ watch

\* from_str on the texts of the model, computed once for either build.
ParsedBy == [preserve \in BOOLEAN |-> [t \in Texts \cup {<<>>} |-> from_str(t, preserve)]]
Parsed == ParsedBy[preserve_order]

\* Lines 184-199: the initial value of the slot.
InitialData(text) == Parsed[text]

\* A parse whose failure degrades the tick's value to None instead of ending
\* the iteration.
TickParse_degrade(old, text) == [skip |-> FALSE, data |-> Parsed[text]]

\* Lines 237-255: the parse of a polling tick, given the slot's value `old`.
\* skip: the iteration ends at the `continue` of line 250; data: the slot after.
TickParse(old, text) ==
    LET parsed == Parsed[text] IN
    IF parsed.some THEN [skip |-> FALSE, data |-> parsed]
    ELSE IF ~trim_is_empty(text) THEN [skip |-> TRUE, data |-> old]
    ELSE [skip |-> FALSE, data |-> None]

\* A log that does not look at whether the text is blank.
ParseErrorLog_blank(text) == IF verbose >= 1 THEN <<ParseErrorMsg>> ELSE <<>>

\* Lines 188-195 and 240-248: the JSON parsing error is logged.
ParseErrorLog(text) ==
    IF verbose >= 1 /\ ~trim_is_empty(text) THEN <<ParseErrorMsg>> ELSE <<>>

\* Lines 175-179 and 223-227: the sampler's error is logged.
SampleErrorLog == IF verbose >= 1 THEN <<SampleErrorMsg>> ELSE <<>>

\* A report whose lines are joined without the indentation.
Report_flat(d) ==
    LET changed == Len(d) IN
    (IF print_date
     THEN <<TsTok>> \o (IF changed = 1 THEN <<SpTok>> ELSE <<NlTok>>)
     ELSE <<>>)
    \o (IF changed = 1
        THEN Display(d)
        ELSE Indent \o join(lines(Display(d), <<>>), <<NlTok>>) \o <<NlTok>>)

\* Lines 266-285: the report of a diff d of `changed` entries.
Report(d) ==
    LET changed == Len(d) IN
    (IF print_date
     THEN <<TsTok>> \o (IF changed = 1 THEN <<SpTok>> ELSE <<NlTok>>)
     ELSE <<>>)
    \o (IF changed = 1
        THEN Display(d)
        ELSE Indent \o join(lines(Display(d), <<>>), <<NlTok>> \o Indent) \o <<NlTok>>)

\* A limit test that lets one change too many through.
LimitReached_gt == changes.some /\ change_count > changes.n

\* Lines 212-213: `if let Some(max) = changes { if change_count >= max`.
LimitReached == changes.some /\ change_count >= changes.n

\* Lines 171-209: the initial sample.
Initial(r) ==
    /\ pc = "init"
    /\ LET input_data == IF r.ok THEN r.text ELSE <<>>
           json == InitialData(input_data) IN
       /\ input' = r
       /\ data' = json
       /\ err' = (IF r.ok THEN <<>> ELSE SampleErrorLog)
                 \o (IF json.some THEN <<>> ELSE ParseErrorLog(input_data))
                 \o (IF print_initial /\ verbose >= 2 THEN print_debug(input_data) ELSE <<>>)
       /\ out' = IF print_initial /\ json.some THEN <<PrettyTok(json.v), NlTok>> ELSE <<>>
    /\ step' = "initial"
    /\ pc' = "check"
    /\ UNCHANGED <<build, cli, sleeps, change_count, prev, dres, ticks, reports, pure>>

\* A reached limit that starts the next check instead of leaving the loop.
Break_continue ==
    /\ pc = "check"
    /\ LimitReached
    /\ pc' = "check"
    /\ step' = "break"
    /\ out' = <<>>
    /\ err' = <<>>
    /\ UNCHANGED <<build, cli, sleeps, change_count, data, prev, input, dres, ticks, reports, pure>>

\* Lines 212-216: the change limit is reached, watch returns.
Break ==
    /\ pc = "check"
    /\ LimitReached
    /\ pc' = "done"
    /\ step' = "break"
    /\ out' = <<>>
    /\ err' = <<>>
    /\ UNCHANGED <<build, cli, sleeps, change_count, data, prev, input, dres, ticks, reports, pure>>

\* Lines 212-216: the limit is not reached (or there is none).
Proceed ==
    /\ pc = "check"
    /\ ~LimitReached
    /\ ticks < MaxTicks
    /\ pc' = "sleep"
    /\ step' = "proceed"
    /\ out' = <<>>
    /\ err' = <<>>
    /\ UNCHANGED <<build, cli, sleeps, change_count, data, prev, input, dres, ticks, reports, pure>>

\* Line 218: thread::sleep(interval).
Sleep ==
    /\ pc = "sleep"
    /\ pc' = "sample"
    /\ sleeps' = sleeps + 1
    /\ step' = "sleep"
    /\ out' = <<>>
    /\ err' = <<>>
    /\ UNCHANGED <<build, cli, change_count, data, prev, input, dres, ticks, reports, pure>>

\* A sampler failure after which the next sample is taken at once.
TickSampleError_nosleep(r) ==
    /\ pc = "sample"
    /\ ~r.ok
    /\ input' = r
    /\ ticks' = ticks + 1
    /\ err' = SampleErrorLog
    /\ out' = <<>>
    /\ step' = "sample_error"
    /\ pc' = IF ticks + 1 < MaxTicks THEN "sample" ELSE "check"
    /\ UNCHANGED <<build, cli, sleeps, change_count, data, prev, dres, reports, pure>>

\* A sampler failure that makes watch return.
TickSampleError_return(r) ==
    /\ pc = "sample"
    /\ ~r.ok
    /\ input' = r
    /\ ticks' = ticks + 1
    /\ err' = SampleErrorLog
    /\ out' = <<>>
    /\ step' = "sample_error"
    /\ pc' = "done"
    /\ UNCHANGED <<build, cli, sleeps, change_count, data, prev, dres, reports, pure>>

\* Lines 220-231: the sampler fails, the iteration ends.
TickSampleError(r) ==
    /\ pc = "sample"
    /\ ~r.ok
    /\ input' = r
    /\ ticks' = ticks + 1
    /\ err' = SampleErrorLog
    /\ out' = <<>>
    /\ step' = "sample_error"
    /\ pc' = "check"
    /\ UNCHANGED <<build, cli, sleeps, change_count, data, prev, dres, reports, pure>>

\* A parse failure that empties the slot before the iteration ends.
TickParseError_none(r) ==
    /\ pc = "sample"
    /\ r.ok
    /\ TickParse(data, r.text).skip
    /\ input' = r
    /\ ticks' = ticks + 1
    /\ prev' = data
    /\ data' = None
    /\ err' = (IF verbose >= 2 THEN print_debug(r.text) ELSE <<>>) \o ParseErrorLog(r.text)
    /\ out' = <<>>
    /\ step' = "parse_error"
    /\ pc' = "check"
    /\ UNCHANGED <<build, cli, sleeps, change_count, dres, reports, pure>>

\* Lines 220-255: the text is not blank and does not parse, the iteration ends.
TickParseError(r) ==
    /\ pc = "sample"
    /\ r.ok
    /\ TickParse(data, r.text).skip
    /\ input' = r
    /\ ticks' = ticks + 1
    /\ prev' = data
    /\ data' = TickParse(data, r.text).data
    /\ err' = (IF verbose >= 2 THEN print_debug(r.text) ELSE <<>>) \o ParseErrorLog(r.text)
    /\ out' = <<>>
    /\ step' = "parse_error"
    /\ pc' = "check"
    /\ UNCHANGED <<build, cli, sleeps, change_count, dres, reports, pure>>

\* An empty diff that is counted as a change.
TickNoChange_counted(r) ==
    /\ pc = "sample"
    /\ r.ok
    /\ ~TickParse(data, r.text).skip
    /\ LET curr == TickParse(data, r.text).data
           d == diff(data, curr) IN
       /\ Len(d) = 0
       /\ prev' = data
       /\ data' = curr
       /\ dres' = d
    /\ change_count' = change_count + 1
    /\ input' = r
    /\ ticks' = ticks + 1
    /\ err' = IF verbose >= 2 THEN print_debug(r.text) ELSE <<>>
    /\ out' = <<>>
    /\ step' = "no_change"
    /\ pc' = "check"
    /\ UNCHANGED <<build, cli, sleeps, reports, pure>>

\* An empty diff that leaves the slot as it was.
TickNoChange_keep(r) ==
    /\ pc = "sample"
    /\ r.ok
    /\ ~TickParse(data, r.text).skip
    /\ LET curr == TickParse(data, r.text).data
           d == diff(data, curr) IN
       /\ Len(d) = 0
       /\ prev' = data
       /\ dres' = d
    /\ input' = r
    /\ ticks' = ticks + 1
    /\ err' = IF verbose >= 2 THEN print_debug(r.text) ELSE <<>>
    /\ out' = <<>>
    /\ step' = "no_change"
    /\ pc' = "check"
    /\ UNCHANGED <<build, cli, sleeps, change_count, data, reports, pure>>

\* Lines 220-262: the diff is empty, the iteration ends.
TickNoChange(r) ==
    /\ pc = "sample"
    /\ r.ok
    /\ ~TickParse(data, r.text).skip
    /\ LET curr == TickParse(data, r.text).data
           d == diff(data, curr) IN
       /\ Len(d) = 0
       /\ prev' = data
       /\ data' = curr
       /\ dres' = d
    /\ input' = r
    /\ ticks' = ticks + 1
    /\ err' = IF verbose >= 2 THEN print_debug(r.text) ELSE <<>>
    /\ out' = <<>>
    /\ step' = "no_change"
    /\ pc' = "check"
    /\ UNCHANGED <<build, cli, sleeps, change_count, reports, pure>>

\* A tick that passes the diff its arguments the wrong way round.
TickReport_swapped(r) ==
    /\ pc = "sample"
    /\ r.ok
    /\ ~TickParse(data, r.text).skip
    /\ LET curr == TickParse(data, r.text).data
           d == diff(curr, data) IN
       /\ Len(d) # 0
       /\ prev' = data
       /\ data' = curr
       /\ dres' = d
       /\ out' = Report(d)
    /\ change_count' = change_count + 1
    /\ reports' = reports + 1
    /\ input' = r
    /\ ticks' = ticks + 1
    /\ err' = IF verbose >= 2 THEN print_debug(r.text) ELSE <<>>
    /\ step' = "report"
    /\ pc' = "check"
    /\ UNCHANGED <<build, cli, sleeps, pure>>

\* A tick that does not test whether the diff is empty.
TickReport_always(r) ==
    /\ pc = "sample"
    /\ r.ok
    /\ ~TickParse(data, r.text).skip
    /\ LET curr == TickParse(data, r.text).data
           d == diff(data, curr) IN
       /\ prev' = data
       /\ data' = curr
       /\ dres' = d
       /\ out' = Report(d)
    /\ change_count' = change_count + 1
    /\ reports' = reports + 1
    /\ input' = r
    /\ ticks' = ticks + 1
    /\ err' = IF verbose >= 2 THEN print_debug(r.text) ELSE <<>>
    /\ step' = "report"
    /\ pc' = "check"
    /\ UNCHANGED <<build, cli, sleeps, pure>>

\* Lines 220-285: the diff has entries, the change is counted and reported.
TickReport(r) ==
    /\ pc = "sample"
    /\ r.ok
    /\ ~TickParse(data, r.text).skip
    /\ LET curr == TickParse(data, r.text).data
           d == diff(data, curr) IN
       /\ Len(d) # 0
       /\ prev' = data
       /\ data' = curr
       /\ dres' = d
       /\ out' = Report(d)
    /\ change_count' = change_count + 1
    /\ reports' = reports + 1
    /\ input' = r
    /\ ticks' = ticks + 1
    /\ err' = IF verbose >= 2 THEN print_debug(r.text) ELSE <<>>
    /\ step' = "report"
    /\ pc' = "check"
    /\ UNCHANGED <<build, cli, sleeps, pure>>

\* ------------------------------------------ the pure functions, exercised

Scalars == {Null, Num(1), Num(2), Str(<<97>>)}
KeySeqs == {ks \in {<<>>, <<<<97>>>>, <<<<98>>>>, <<<<97>>, <<98>>>>, <<<<98>>, <<97>>>>} :
               Len(ks) <= MaxWidth}
Arrays(S) == {Arr(xs) : xs \in UNION {[1 .. k -> S] : k \in 0 .. MaxWidth}}
Objects(S) == UNION {{Obj(ks, xs) : xs \in [1 .. Len(ks) -> S]} : ks \in KeySeqs}
Flat == Scalars \cup Arrays(Scalars) \cup Objects(Scalars)
Values == Flat \cup {Arr(<<x>>) : x \in Flat} \cup {Obj(<<<<97>>>>, <<x>>) : x \in Flat}
OptValues == {None} \cup {Some(x) : x \in Values}
\* Those the build's Map can hold.
OptValuesBy == [preserve \in BOOLEAN |-> {o \in OptValues : MapHolds(o.v, preserve)}]

EscChars == {0, 9, 10, 13, 27, 32, 97, 127, 159, 160}
EscInputs == UNION {[1 .. k -> EscChars] : k \in 0 .. MaxEscLen}

\* diff::diff(&p, &c)
DiffCall(p, c) ==
    /\ pc = "diff"
    /\ d_prev' = p
    /\ d_curr' = c
    /\ d_out' = diff(p, c)
    /\ pc' = "diffed"
    /\ UNCHANGED <<build, cli, loop, esc_in, esc_out>>

\* escape_for_terminal(&x)
EscapeCall(x) ==
    /\ pc = "escape"
    /\ esc_in' = x
    /\ esc_out' = escape_for_terminal(x)
    /\ pc' = "escaped"
    /\ UNCHANGED <<build, cli, loop, d_prev, d_curr, d_out>>

\* ---------------------------------------------------------- specification

Init ==
    /\ pc \in {"init", "diff", "escape"}
    /\ preserve_order \in BOOLEAN
    /\ changes \in IF pc = "init" THEN {NoLimit} \cup {Limit(k) : k \in 0 .. MaxChanges} ELSE {NoLimit}
    /\ print_date \in IF pc = "init" THEN BOOLEAN ELSE {TRUE}
    /\ print_initial \in IF pc = "init" THEN BOOLEAN ELSE {TRUE}
    /\ verbose \in IF pc = "init" THEN 0 .. 2 ELSE {0}
    /\ change_count = 0
    /\ data = None
    /\ prev = None
    /\ input = SampleErr
    /\ step = "none"
    /\ dres = <<>>
    /\ out = <<>>
    /\ err = <<>>
    /\ ticks = 0
    /\ reports = 0
    /\ sleeps = 0
    /\ d_prev = None
    /\ d_curr = None
    /\ d_out = <<>>
    /\ esc_in = <<>>
    /\ esc_out = <<>>

Next ==
    \/ \E r \in Samples : Initial(r)
    \/ Break
    \/ Proceed
    \/ Sleep
    \/ \E r \in Samples : TickSampleError(r)
    \/ \E r \in Samples : TickParseError(r)
    \/ \E r \in Samples : TickNoChange(r)
    \/ \E r \in Samples : TickReport(r)
    \/ pc = "diff" /\ \E p \in OptValuesBy[preserve_order], c \in OptValuesBy[preserve_order] : DiffCall(p, c)
    \/ pc = "escape" /\ \E x \in EscInputs : EscapeCall(x)

Spec == Init /\ [][Next]_vars

\* watch alone, entered with any flags.
WatchInit == Init /\ pc = "init"

WatchNext ==
    \/ \E r \in Samples : Initial(r)
    \/ Break
    \/ Proceed
    \/ Sleep
    \/ \E r \in Samples : TickSampleError(r)
    \/ \E r \in Samples : TickParseError(r)
    \/ \E r \in Samples : TickNoChange(r)
    \/ \E r \in Samples : TickReport(r)

\* watch runs on one thread, whose next statement is always executed:
\* thread::sleep returns once the interval is over and the sampler returns a
\* text or an error, so a step of watch that stays possible is taken.
FairSpec == WatchInit /\ [][WatchNext]_vars /\ WF_vars(WatchNext)


\* ----------------------------------------------------------------- claims

\* The sample r is a failure: the sampler's error, or a text that is not
\* blank and is no JSON.
Failing(r) == ~r.ok \/ (~trim_is_empty(r.text) /\ ~Parsed[r.text].some)

\* The sample r is a blank text.
Blank(r) == r.ok /\ trim_is_empty(r.text)

TickSteps == {"sample_error", "parse_error", "no_change", "report"}

\* C1, as the claim states it: after every tick (the initial sample or a
\* polling tick) whose sample is a failure, the slot `data` holds None.
C1_Original ==
    (step \in TickSteps \cup {"initial"} /\ Failing(input)) => data = None

\* C1, amended: a failure on the initial sample leaves None in the slot; a
\* failure on a polling tick ends the iteration before the diff call, with
\* the slot, the last diff, change_count and stdout as they were.
C1_FailureInitialNoneTickSkipped ==
    [][ /\ (pc = "init" /\ pc' = "check" /\ Failing(input')) => data' = None
        /\ (pc = "sample" /\ pc' # "sample" /\ Failing(input')) =>
              /\ step' \in {"sample_error", "parse_error"}
              /\ data' = data
              /\ dres' = dres
              /\ change_count' = change_count
              /\ out' = <<>> ]_vars

\* A polling tick has failed to parse and the slot still holds a value.
C1_Witness == step = "parse_error" /\ data.some /\ Failing(input)

\* C2: no failure makes watch return: a failed sample, initial or polling,
\* leads to the change-limit check; watch returns only from that check, with
\* a limit that is reached; without a limit it never returns.
C2_FailuresNeverEndTheLoop ==
    [][ /\ (pc \in {"init", "sample"} /\ pc' # pc /\ Failing(input')) => pc' = "check"
        /\ (pc # "done" /\ pc' = "done") =>
              (pc = "check" /\ changes.some /\ change_count >= changes.n)
        /\ ~changes.some => pc' # "done" ]_vars

\* Without a limit, a sampler error on a second or later tick: watch is back
\* at the check.
C2_Witness ==
    ~changes.some /\ step = "sample_error" /\ ticks >= 2 /\ pc = "check"

\* C3: with a limit n, change_count and the number of reports never exceed n;
\* watch returns only with exactly n changes reported, and with n reached it
\* neither sleeps nor samples again; with n = 0 no polling sample is taken.
C3_ChangeLimit ==
    changes.some =>
        /\ change_count <= changes.n
        /\ reports <= changes.n
        /\ pc = "done" => (change_count = changes.n /\ reports = changes.n)
        /\ pc \in {"sleep", "sample"} => change_count < changes.n
        /\ (pc = "check" /\ change_count = changes.n) => ~ENABLED Proceed
        /\ changes.n = 0 => (ticks = 0 /\ pc \in {"init", "check", "done"})

\* watch has returned after two reported changes, with more samples taken
\* than changes reported.
C3_Witness ==
    pc = "done" /\ changes.some /\ changes.n = 2 /\ reports = 2 /\ ticks > 2

\* C4: a blank sample gives None, logs no JSON parsing error whatever the
\* verbosity, and on a polling tick reaches the diff call, which compares the
\* slot's previous value with None.
C4_BlankIsNoneNotLoggedNotSkipped ==
    [][ /\ (pc = "init" /\ pc' = "check" /\ Blank(input')) =>
              /\ data' = None
              /\ \A i \in 1 .. Len(err') : err'[i] # ParseErrorMsg
        /\ (pc = "sample" /\ pc' # "sample" /\ Blank(input')) =>
              /\ data' = None
              /\ \A i \in 1 .. Len(err') : err'[i] # ParseErrorMsg
              /\ step' \in {"no_change", "report"}
              /\ prev' = data
              /\ dres' = diff(data, None) ]_vars

\* With -vv, a polling tick sampled white space while the slot held a value.
C4_Witness ==
    /\ step = "report" /\ verbose = 2
    /\ input = SampleOk(<<32, 10>>)
    /\ prev.some /\ ~data.some

\* C5: a tick that reaches the diff call passes the slot's value as it stood
\* since the preceding sample as prev and this tick's parsed value as curr,
\* and the slot then holds this tick's value, whether or not the diff is
\* empty; between samples the slot does not change.
C5_DiffAgainstPreviousSample ==
    [][ /\ step' \in {"no_change", "report"} /\ pc = "sample" =>
              /\ prev' = data
              /\ data' = Parsed[input'.text]
              /\ dres' = diff(prev', data')
        /\ pc \in {"check", "sleep"} => data' = data ]_vars

\* An empty diff after which the slot holds another (equal) value than before.
C5_Witness == step = "no_change" /\ data.some /\ data # prev


\* One indented output line per entry of d.
RECURSIVE C6_EntryLines(_)
C6_EntryLines(d) ==
    IF d = <<>> THEN <<>>
    ELSE Indent \o <<EntryTok(Head(d)), NlTok>> \o C6_EntryLines(Tail(d))

\* C6: with dates, a report of one entry is the timestamp, one space and the
\* entry, with no line break before the entry; a report of two or more
\* entries is the timestamp on its own line, then one line per entry, each
\* behind four spaces.
C6_ReportLayout ==
    (step = "report" /\ print_date) =>
        IF Len(dres) = 1
        THEN /\ Len(out) >= 3
             /\ out[1] = TsTok
             /\ out[2] = SpTok
             /\ out[3] = EntryTok(dres[1])
        ELSE out = <<TsTok, NlTok>> \o C6_EntryLines(dres)

\* A dated report of two or more entries.
C6_Witness == step = "report" /\ print_date /\ Len(dres) >= 2 /\ Len(out) > 2

\* The escapes of the control characters among EscChars, written out.
C7_Image(ch) ==
    IF ch = 0 THEN <<92, 117, 123, 48, 125>>                \* \u{0}
    ELSE IF ch = 13 THEN <<92, 117, 123, 100, 125>>         \* \u{d}
    ELSE IF ch = 27 THEN <<92, 117, 123, 49, 98, 125>>      \* \u{1b}
    ELSE IF ch = 127 THEN <<92, 117, 123, 55, 102, 125>>    \* \u{7f}
    ELSE IF ch = 159 THEN <<92, 117, 123, 57, 102, 125>>    \* \u{9f}
    ELSE <<ch>>

RECURSIVE C7_Expected(_)
C7_Expected(x) ==
    IF x = <<>> THEN <<>> ELSE C7_Image(Head(x)) \o C7_Expected(Tail(x))

\* C7: the output of escape_for_terminal holds no control character but
\* newline and tab; it is the input with newline, tab and every character
\* that is no control character kept, and every other control character
\* replaced by \u{h}, h its code point in lower-case hexadecimal.
C7_EscapeForTerminal ==
    pc = "escaped" =>
        /\ \A i \in 1 .. Len(esc_out) :
              (esc_out[i] \in 0 .. 31 \cup 127 .. 159) => esc_out[i] \in {9, 10}
        /\ esc_out = C7_Expected(esc_in)

\* An input with ESC, a newline and a C1 control.
C7_Witness == pc = "escaped" /\ esc_in = <<27, 10, 159>>

\* C8: diff(None, Some(v)) is the one entry Added(root, v), diff(Some(v),
\* None) the one entry Removed(root, v), diff(None, None) is empty, whatever
\* v is; and a polling tick that goes from a value to none, or back, reports
\* that one entry.
C8_AbsentSide ==
    /\ pc = "diffed" =>
          /\ (~d_prev.some /\ d_curr.some) =>
                d_out = <<[kind |-> "Added", path |-> <<>>, old |-> None, new |-> d_curr]>>
          /\ (d_prev.some /\ ~d_curr.some) =>
                d_out = <<[kind |-> "Removed", path |-> <<>>, old |-> d_prev, new |-> None]>>
          /\ (~d_prev.some /\ ~d_curr.some) => d_out = <<>>
    /\ step = "report" =>
          /\ (~prev.some /\ data.some) =>
                dres = <<[kind |-> "Added", path |-> <<>>, old |-> None, new |-> data]>>
          /\ (prev.some /\ ~data.some) =>
                dres = <<[kind |-> "Removed", path |-> <<>>, old |-> prev, new |-> None]>>
    /\ step = "no_change" => (prev.some = data.some)

\* diff(None, Some(v)) for an object v that holds a non-empty array.
C8_Witness ==
    /\ pc = "diffed" /\ ~d_prev.some /\ d_curr.some
    /\ d_curr.v.t = "obj" /\ Len(d_curr.v.kids) = 1
    /\ d_curr.v.kids[1].t = "arr" /\ Len(d_curr.v.kids[1].kids) = 2
    /\ Len(d_out) = 1

\* C9: the diff of two structurally equal values (objects equal whatever the
\* order of their keys) is empty; a polling tick whose value is structurally
\* equal to the slot's ends at the empty-diff test, with no report and
\* change_count as it was.
C9_EqualValuesNoReport ==
    [][ /\ (pc' = "diffed" /\ d_prev'.some /\ d_curr'.some
              /\ ValueEq(d_prev'.v, d_curr'.v)) => d_out' = <<>>
        /\ (pc' = "diffed" /\ d_prev' = d_curr') => d_out' = <<>>
        /\ (pc = "sample" /\ pc' # "sample" /\ input'.ok /\ data.some
              /\ Parsed[input'.text].some
              /\ ValueEq(data.v, Parsed[input'.text].v)) =>
                 /\ step' = "no_change"
                 /\ dres' = <<>>
                 /\ out' = <<>>
                 /\ change_count' = change_count
                 /\ reports' = reports ]_vars

\* A tick whose value has the slot's members in another order: no report.
C9_Witness ==
    /\ step = "no_change" /\ prev.some /\ data.some /\ prev # data
    /\ prev.v.t = "obj" /\ Len(prev.v.keys) = 2 /\ change_count > 0

\* The value of v at path, None when v has no such place.
RECURSIVE Lookup(_, _)
Lookup(v, path) ==
    IF path = <<>> THEN Some(v)
    ELSE LET seg == Head(path) IN
         IF seg.isidx
         THEN IF v.t = "arr" /\ seg.idx < Len(v.kids)
              THEN Lookup(v.kids[seg.idx + 1], Tail(path))
              ELSE None
         ELSE IF v.t = "obj" /\ KeyIndex(v.keys, seg.key) # 0
              THEN Lookup(v.kids[KeyIndex(v.keys, seg.key)], Tail(path))
              ELSE None

\* The paths of the places of v.
RECURSIVE PathsOf(_)
PathsOf(v) ==
    {<<>>} \cup
    UNION { { <<IF v.t = "arr" THEN Idx(i - 1) ELSE Key(v.keys[i])>> \o p :
                p \in PathsOf(v.kids[i]) } : i \in 1 .. Len(v.kids) }

\* q is a proper prefix of p.
ProperPrefix(q, p) == Len(q) < Len(p) /\ SubSeq(p, 1, Len(q)) = q

\* Both values have a place at p, and above p the same variants all the way.
SameShapeAbove(a, b, p) ==
    \A k \in 0 .. Len(p) - 1 :
        Lookup(a, SubSeq(p, 1, k)).v.t = Lookup(b, SubSeq(p, 1, k)).v.t

\* C10: where old and new are of different variants at a path the comparison
\* reaches, the result has exactly one entry at that path, Changed with the
\* whole old and new values, and none at a deeper path; every Changed entry
\* has both sides, which are the two values at its path and are not
\* structurally equal.
C10_VariantChangeIsOneChanged ==
    pc = "diffed" =>
        /\ \A i \in 1 .. Len(d_out) :
              d_out[i].kind = "Changed" =>
                 /\ d_prev.some /\ d_curr.some
                 /\ d_out[i].old.some /\ d_out[i].new.some
                 /\ d_out[i].old = Lookup(d_prev.v, d_out[i].path)
                 /\ d_out[i].new = Lookup(d_curr.v, d_out[i].path)
                 /\ ~ValueEq(d_out[i].old.v, d_out[i].new.v)
        /\ (d_prev.some /\ d_curr.some) =>
              \A p \in PathsOf(d_prev.v) \cap PathsOf(d_curr.v) :
                 (/\ SameShapeAbove(d_prev.v, d_curr.v, p)
                  /\ Lookup(d_prev.v, p).v.t # Lookup(d_curr.v, p).v.t) =>
                    /\ Cardinality({i \in 1 .. Len(d_out) : d_out[i].path = p}) = 1
                    /\ \E i \in 1 .. Len(d_out) :
                          d_out[i] = [kind |-> "Changed", path |-> p,
                                      old |-> Lookup(d_prev.v, p),
                                      new |-> Lookup(d_curr.v, p)]
                    /\ \A i \in 1 .. Len(d_out) : ~ProperPrefix(p, d_out[i].path)

\* Below the root, a non-empty array has become a non-empty object.
C10_Witness ==
    /\ pc = "diffed" /\ Len(d_out) = 1
    /\ d_out[1].kind = "Changed" /\ d_out[1].path # <<>>
    /\ d_out[1].old.v.t = "arr" /\ Len(d_out[1].old.v.kids) > 0
    /\ d_out[1].new.v.t = "obj" /\ Len(d_out[1].new.v.kids) > 0


\* The entries es with the segment seg put before their paths.
Below(seg, es) == [i \in 1 .. Len(es) |-> [es[i] EXCEPT !.path = <<seg>> \o @]]

\* The sequences of ss, one after the other.
RECURSIVE Concat(_)
Concat(ss) == IF ss = <<>> THEN <<>> ELSE Head(ss) \o Concat(Tail(ss))

\* The keys the object rule visits: old's in old's order, then those only
\* new has, in new's order.
C11_Visited(a, b) ==
    LET OnlyNew(k) == \A i \in 1 .. Len(a.keys) : a.keys[i] # k IN
    a.keys \o SelectSeq(b.keys, OnlyNew)

\* What the visit of key k adds: one Removed, one Added, or the entries of
\* the comparison of the two values below k.
C11_AtKey(a, b, k) ==
    LET i == KeyIndex(a.keys, k)
        j == KeyIndex(b.keys, k) IN
    IF j = 0
    THEN <<[kind |-> "Removed", path |-> <<Key(k)>>, old |-> Some(a.kids[i]), new |-> None]>>
    ELSE IF i = 0
    THEN <<[kind |-> "Added", path |-> <<Key(k)>>, old |-> None, new |-> Some(b.kids[j])]>>
    ELSE IF ValueEq(a.kids[i], b.kids[j]) THEN <<>>
    ELSE Below(Key(k), diff(Some(a.kids[i]), Some(b.kids[j])))

\* C11: the diff of two unequal objects is, key by key in the order old's
\* keys then the keys only in new, one Removed for a key only in old (with
\* old's value, null included), one Added for a key only in new, and for a
\* key in both the entries of the comparison of its two values, none when
\* they are equal.
C11_ObjectKeysInOrder ==
    (/\ pc = "diffed" /\ d_prev.some /\ d_curr.some
     /\ d_prev.v.t = "obj" /\ d_curr.v.t = "obj"
     /\ ~ValueEq(d_prev.v, d_curr.v)) =>
        LET ks == C11_Visited(d_prev.v, d_curr.v) IN
        d_out = Concat([n \in 1 .. Len(ks) |-> C11_AtKey(d_prev.v, d_curr.v, ks[n])])

\* old is {"b":null,"a":..} and new {"a":..}: b is removed, with null, before
\* a's change is reported.
C11_Witness ==
    /\ pc = "diffed" /\ d_prev.some /\ d_curr.some
    /\ d_prev.v.keys = <<<<98>>, <<97>>>> /\ d_curr.v.keys = <<<<97>>>>
    /\ Len(d_out) = 2
    /\ d_out[1].kind = "Removed" /\ d_out[1].path[1].key = <<98>>
    /\ d_out[1].old = Some(Null) /\ ~d_out[1].new.some
    /\ d_out[2].kind = "Changed" /\ d_out[2].path[1].key = <<97>>

\* What index i (from 0) adds.
C12_AtIndex(a, b, i) ==
    IF i < Len(a.kids) /\ i < Len(b.kids)
    THEN Below(Idx(i), diff(Some(a.kids[i + 1]), Some(b.kids[i + 1])))
    ELSE IF i < Len(a.kids)
    THEN <<[kind |-> "Removed", path |-> <<Idx(i)>>, old |-> Some(a.kids[i + 1]), new |-> None]>>
    ELSE <<[kind |-> "Added", path |-> <<Idx(i)>>, old |-> None, new |-> Some(b.kids[i + 1])]>>

\* C12: the diff of two unequal arrays is, index by index upwards, the
\* entries of the comparison of old[i] with new[i] below the shorter length,
\* then one Removed per further element of old or one Added per further
\* element of new; elements are never matched across indices.
C12_ArraysPositional ==
    (/\ pc = "diffed" /\ d_prev.some /\ d_curr.some
     /\ d_prev.v.t = "arr" /\ d_curr.v.t = "arr"
     /\ ~ValueEq(d_prev.v, d_curr.v)) =>
        LET m == IF Len(d_prev.v.kids) > Len(d_curr.v.kids)
                 THEN Len(d_prev.v.kids) ELSE Len(d_curr.v.kids) IN
        d_out = Concat([n \in 1 .. m |-> C12_AtIndex(d_prev.v, d_curr.v, n - 1)])

\* [1] against [2,1]: the element put in front reads as a change at index 0
\* and an addition at index 1.
C12_Witness ==
    /\ pc = "diffed"
    /\ d_prev = Some(Arr(<<Num(1)>>)) /\ d_curr = Some(Arr(<<Num(2), Num(1)>>))
    /\ Len(d_out) = 2
    /\ d_out[1].kind = "Changed" /\ d_out[1].path = <<Idx(0)>>
    /\ d_out[2].kind = "Added" /\ d_out[2].path = <<Idx(1)>>

\* The entry e seen from the other side.
C13_Swapped(e) ==
    [kind |-> IF e.kind = "Added" THEN "Removed"
              ELSE IF e.kind = "Removed" THEN "Added" ELSE e.kind,
     path |-> e.path, old |-> e.new, new |-> e.old]

Entries(d) == {d[i] : i \in 1 .. Len(d)}
PathsOnce(d) == \A i, j \in 1 .. Len(d) : d[i].path = d[j].path => i = j

\* C13: diff(Some(a), Some(b)) and diff(Some(b), Some(a)) name each path at
\* most once, name the same paths, and the entries of one are those of the
\* other with the operands swapped: Changed(p,x,y) against Changed(p,y,x),
\* Added(p,x) against Removed(p,x).
C13_SwappedOperands ==
    (pc = "diffed" /\ d_prev.some /\ d_curr.some) =>
        LET back == diff(d_curr, d_prev) IN
        /\ PathsOnce(d_out)
        /\ PathsOnce(back)
        /\ {e.path : e \in Entries(d_out)} = {e.path : e \in Entries(back)}
        /\ {C13_Swapped(e) : e \in Entries(d_out)} = Entries(back)

\* Two objects, each with one key, which the other lacks.
C13_Witness ==
    /\ pc = "diffed" /\ d_prev.some /\ d_curr.some
    /\ d_prev.v.t = "obj" /\ d_curr.v.t = "obj"
    /\ Len(d_out) = 2
    /\ d_out[1].kind = "Removed" /\ d_out[2].kind = "Added"


\* The messages of print_debug among those of err.
DebugKinds == {"debug", "debug_multiline"}

\* C14, as the claim states it: with verbose >= 2 the text of every sample the
\* sampler returned, the initial one and each polling one, is written to
\* stderr by print_debug, whatever print_date and print_initial are; with
\* verbose < 2 print_debug writes nothing.
C14_DebugEverySample ==
    /\ (verbose >= 2 /\ input.ok /\ step \in {"initial", "parse_error", "no_change", "report"}) =>
          \E i \in 1 .. Len(err) :
              err[i].kind \in DebugKinds /\ err[i].text = escape_for_terminal(input.text)
    /\ verbose < 2 => \A i \in 1 .. Len(err) : err[i].kind \notin DebugKinds

\* C15: a polling tick whose sample is a failure ends with the slot,
\* change_count, the number of reports and stdout as they were; the tick that
\* next reaches the diff call passes the slot, that is the last good value,
\* as prev, so a failure between two structurally equal samples is followed
\* by an empty diff.
C15_FailedTickSkipped ==
    [][ /\ (pc = "sample" /\ pc' # "sample" /\ Failing(input')) =>
              /\ data' = data
              /\ change_count' = change_count
              /\ reports' = reports
              /\ out' = <<>>
              /\ pc' = "check"
        /\ (pc = "sample" /\ pc' # "sample" /\ ~Failing(input')) =>
              /\ prev' = data
              /\ (data.some /\ data'.some /\ ValueEq(data.v, data'.v)) =>
                    (dres' = <<>> /\ out' = <<>> /\ reports' = reports) ]_vars

\* After a change was reported, the sampler has failed on a later tick and
\* the slot still holds a value.
C15_Witness ==
    step = "sample_error" /\ data.some /\ change_count >= 1 /\ ticks >= 2 /\ out = <<>>

\* C16: a polling tick whose diff is empty writes nothing to stdout and
\* leaves change_count and the number of reports as they were; a blank sample
\* while the slot holds None is such a tick.
C16_EmptyDiffSilent ==
    [][ /\ (pc = "sample" /\ step' = "no_change") =>
              /\ dres' = <<>>
              /\ out' = <<>>
              /\ change_count' = change_count
              /\ reports' = reports
        /\ (pc = "sample" /\ pc' # "sample" /\ ~Failing(input') /\ Len(dres') = 0) =>
              step' = "no_change"
        /\ (pc = "sample" /\ pc' # "sample" /\ ~data.some /\ Blank(input')) =>
              (step' = "no_change" /\ ~data'.some) ]_vars

\* With a limit, a second tick on which the source still has no value.
C16_Witness ==
    /\ step = "no_change" /\ ~prev.some /\ ~data.some
    /\ changes.some /\ changes.n >= 1 /\ change_count = 0 /\ ticks >= 2

\* C17: an iteration is the limit check, then one sleep, then one sample with
\* its parse, diff and report, which leads back to the check: a sample is
\* taken only right after a sleep, a sleep only right after a check that did
\* not break, so each polling sample has its own sleep before it, a skipped
\* tick's successor included; with the limit reached, no sleep and no sample
\* follows.
C17_CheckSleepSample ==
    [][ /\ (pc' = "sample" /\ pc # "sample") => (pc = "sleep" /\ sleeps' = sleeps + 1)
        /\ (pc' = "sleep" /\ pc # "sleep") => (pc = "check" /\ ~LimitReached)
        /\ (pc = "sample" /\ pc' # "sample") =>
              (pc' = "check" /\ ticks' = ticks + 1 /\ sleeps' = sleeps /\ sleeps' = ticks')
        /\ ticks' # ticks => pc = "sample"
        /\ (pc = "check" /\ LimitReached) =>
              (pc' \in {"check", "done"} /\ sleeps' = sleeps /\ ticks' = ticks)
        /\ (pc = "sample" /\ step' = "report") => out' = Report(diff(data, data')) ]_vars

\* The last tick failed and was skipped; watch has slept again and is about
\* to take the next sample.
C17_Witness ==
    pc = "sample" /\ Failing(input) /\ ticks >= 1 /\ sleeps = ticks + 1

\* C18: every tick, be it skipped by an error, without a change or with a
\* report, ends and leads back to the limit check; a check leads to the next
\* sample, or to the return of watch; and with a limit n, once n ticks have
\* had a non-empty diff, watch stands at the check, whose only step is the
\* return, so that it returns.
C18_TicksEndAndLimitReturns ==
    /\ (pc = "sample") ~> (pc = "check" /\ step \in TickSteps)
    /\ (pc = "sleep" \/ (pc = "check" /\ (LimitReached \/ ticks < MaxTicks)))
          ~> (pc = "sample" \/ (pc = "done" /\ step = "break"))
    /\ [][ /\ (pc = "check" /\ LimitReached) => (pc' = "done" /\ step' = "break")
           /\ (changes.some /\ reports' >= changes.n /\ pc' # "done") => pc' = "check" ]_vars

\* watch has returned after the second of two reports, which came on a later
\* tick than the first one's successor: some tick between was skipped or
\* had no change.
C18_Witness ==
    /\ pc = "done" /\ step = "break"
    /\ changes.some /\ changes.n = MaxChanges /\ reports = MaxChanges
    /\ Len(dres) >= 1
    /\ ticks = MaxTicks /\ sleeps = ticks

=============================================================================
